---- MODULE Spec2Model ----
(***************************************************************************)
(* A model of blend_converter (src/src/lib.rs): discovery of the blender   *)
(* executable (BlenderExecutable::find, find_using_path,                   *)
(* find_using_options), single-file conversion (ConversionOptions::convert *)
(* and convert_internal) and the directory walk (convert_dir).             *)
(*                                                                         *)
(* One behaviour of the model is one call of one public entry point.  The  *)
(* file system and the child processes are the environment: what a probe   *)
(* does is fixed per candidate when the call starts (probeEnv), every      *)
(* other outcome (directory entries, create_dir_all, canonicalize, the     *)
(* conversion process) is chosen when the code asks for it.  Everything    *)
(* the call does to the outside world is appended to log.                  *)
(***************************************************************************)
EXTENDS Integers, Sequences, FiniteSets, TLC

VARIABLES
    op,          \* the entry point called
    options,     \* the ConversionOptions (self)
    input,       \* convert: input; convert_dir: input_dir; find_using_path: path
    output,      \* convert: output; convert_dir: output_dir
    probeEnv,    \* what each candidate's probe process does in this environment
    pc,          \* position inside the call
    candidates,  \* find(): the rest of the vec![Normal, Flatpak] iterator
    blender_exe, \* the local blender_exe of convert / convert_dir
    walked,      \* convert_dir: the items the WalkDir iterator has produced
    cur,         \* convert_internal's arguments and locals for the current file
    log,         \* the probes, mkdirs, canonicalizes and spawns made, in order
    result       \* the value the call returned

vars == <<op, options, input, output, probeEnv, pc, candidates, blender_exe,
          walked, cur, log, result>>

----------------------------------------------------------------------------
(* Bounds *)

\* most items one WalkDir iteration produces
MaxEntries == 3

----------------------------------------------------------------------------
(* std::path.  A path is its root flag and its components; a component (a  *)
(* file or directory name) is the sequence of the pieces between its dots: *)
(* "x.blend" is <<"x","blend">>, "b" is <<"b">>, ".blend" is <<"","blend">>,*)
(* "x.tar.blend" is <<"x","tar","blend">>.                                  *)

MkPath(abs, comps) == [abs |-> abs, comps |-> comps]

EmptyPath == MkPath(FALSE, <<>>)

Some(v) == [some |-> TRUE, v |-> v]

NoPath == [some |-> FALSE, v |-> EmptyPath]

NoName == [some |-> FALSE, v |-> <<>>]

Front(s) == SubSeq(s, 1, Len(s) - 1)

Last(s) == s[Len(s)]

\* Path::join: an absolute right-hand side replaces the left-hand side
Join(p, q) ==
    IF q.abs THEN q ELSE MkPath(p.abs, p.comps \o q.comps)

\* Path::join with a bare name (an OsStr without separators)
JoinName(p, name) == Join(p, MkPath(FALSE, <<name>>))

\* Path::parent: None for the empty path and for the root
Parent(p) ==
    IF p.comps = <<>> THEN NoPath ELSE Some(MkPath(p.abs, Front(p.comps)))

\* Path::file_name
FileName(p) ==
    IF p.comps = <<>> THEN NoName ELSE Some(Last(p.comps))

\* the name has no dot that splits it: no dot at all, or only a leading one
Unsplit(name) == Len(name) = 1 \/ (Len(name) = 2 /\ name[1] = "")

\* Path::file_stem: the name before its final dot; the whole name when it has
\* no dot or only a leading one
FileStem(p) ==
    LET f == FileName(p) IN
    IF ~f.some THEN NoName
    ELSE IF Unsplit(f.v) THEN f
    ELSE Some(Front(f.v))

\* Path::extension: what follows the final dot; None when the name has no dot
\* or only a leading one
Extension(p) ==
    LET f == FileName(p) IN
    IF ~f.some \/ Unsplit(f.v) THEN [some |-> FALSE, v |-> ""]
    ELSE [some |-> TRUE, v |-> Last(f.v)]

----------------------------------------------------------------------------
(* OutputFormat and the export directive *)

OutputFormats == {"Glb", "GltfEmbedded", "GltfSeparate"}

\* #[default] of OutputFormat
DefaultOutputFormat == "Glb"

\* a plausible slip: the two glTF text variants exchanged
FormatToken_swapped(format) ==
    CASE format = "Glb" -> "GLB"
      [] format = "GltfEmbedded" -> "GLTF_SEPARATE"
      [] format = "GltfSeparate" -> "GLTF_EMBEDDED"

\* the match of export_script
FormatToken(format) ==
    CASE format = "Glb" -> "GLB"
      [] format = "GltfEmbedded" -> "GLTF_EMBEDDED"
      [] format = "GltfSeparate" -> "GLTF_SEPARATE"

NoScript ==
    [text |-> "", filepath |-> NoPath, check_existing |-> "", export_format |-> ""]

\* export_script: the format! string, its two {:?} holes kept as fields
export_script(format, file_path) ==
    [text           |-> "import bpy; bpy.ops.export_scene.gltf",
     filepath       |-> Some(file_path),
     check_existing |-> "False",
     export_format  |-> FormatToken(format)]

\* ConversionOptions::default(), which new() returns
DefaultOptions == [output_format |-> DefaultOutputFormat, blender_path |-> NoPath]

----------------------------------------------------------------------------
(* BlenderExecutable, its command line and its probe *)

Normal == [tag |-> "Normal", path |-> EmptyPath]

Flatpak == [tag |-> "Flatpak", path |-> EmptyPath]

PathExe(p) == [tag |-> "Path", path |-> p]

NoExe == [tag |-> "None", path |-> EmptyPath]

Tags == {"Normal", "Flatpak", "Path"}

StrArg(s) == [s |-> s, path |-> NoPath, script |-> NoScript]

PathArg(p) == [s |-> "", path |-> Some(p), script |-> NoScript]

ScriptArg(sc) == [s |-> "", path |-> NoPath, script |-> sc]

NoCmd == [program |-> [name |-> "", path |-> NoPath], args |-> <<>>]

\* BlenderExecutable::cmd
cmd(exe) ==
    CASE exe.tag = "Normal" ->
           [program |-> [name |-> "blender", path |-> NoPath], args |-> <<>>]
      [] exe.tag = "Flatpak" ->
           [program |-> [name |-> "flatpak", path |-> NoPath],
            args |-> <<StrArg("run"), StrArg("org.blender.Blender")>>]
      [] exe.tag = "Path" ->
           [program |-> [name |-> "", path |-> Some(exe.path)], args |-> <<>>]

\* Command::arg
Arg(c, a) == [c EXCEPT !.args = Append(@, a)]

\* the command test() runs
TestCmd(exe) == Arg(Arg(cmd(exe), StrArg("-b")), StrArg("-v"))

\* the command convert_internal runs
ConvertCmd(exe, format, input_file_path, out) ==
    Arg(Arg(Arg(Arg(cmd(exe), StrArg("-b")), PathArg(input_file_path)),
            StrArg("--python-expr")), ScriptArg(export_script(format, out)))

\* std::process::ExitStatus: an exit code, or the signal that ended the process
Exited(code) == [exited |-> TRUE, code |-> code]

Signaled(sig) == [exited |-> FALSE, code |-> sig]

NoStatus == [exited |-> FALSE, code |-> 0]

\* a slip: any process that exited at all counts
Success_exited(status) == status.exited

\* ExitStatus::success
Success(status) == status.exited /\ status.code = 0

\* Command::status: Err when the process cannot be launched, else its status
Launched(status) == [launched |-> TRUE, status |-> status]

NotLaunched == [launched |-> FALSE, status |-> NoStatus]

\* what a probe can do: exit with success, exit non-zero, fail to launch
ProbeOutcomes == {Launched(Exited(0)), Launched(Exited(1)), NotLaunched}

\* what a conversion process can do
RunOutcomes ==
    {Launched(Exited(0)), Launched(Exited(1)), Launched(Exited(2)),
     Launched(Signaled(9)), NotLaunched}

\* BlenderExecutable::test: io::Result<bool>
test(exe) ==
    LET o == probeEnv[exe.tag] IN
    IF o.launched THEN [ok |-> TRUE, v |-> Success(o.status)]
    ELSE [ok |-> FALSE, v |-> FALSE]

\* matches!(x.test(), Ok(true))
Matches(r) == r.ok /\ r.v

\* a slip: the launcher tried first
FindOrder_reversed == <<Flatpak, Normal>>

\* vec![Self::Normal, Self::Flatpak]
FindOrder == <<Normal, Flatpak>>

----------------------------------------------------------------------------
(* Error and the values a call returns *)

NoErr == [tag |-> "", path |-> EmptyPath, status |-> NoStatus, io |-> ""]

MissingBlenderExecutable == [NoErr EXCEPT !.tag = "MissingBlenderExecutable"]

InvalidInputFile(p) == [NoErr EXCEPT !.tag = "InvalidInputFile", !.path = p]

Export(status) == [NoErr EXCEPT !.tag = "Export", !.status = status]

\* From<std::io::Error>; io names the call that failed
IOError(call) == [NoErr EXCEPT !.tag = "IOError", !.io = call]

Pending == [kind |-> "pending", exe |-> NoExe, err |-> NoErr]

Ok == [kind |-> "Ok", exe |-> NoExe, err |-> NoErr]

OkExe(exe) == [kind |-> "Ok", exe |-> exe, err |-> NoErr]

Err(e) == [kind |-> "Err", exe |-> NoExe, err |-> e]

----------------------------------------------------------------------------
(* The environment: the arguments a caller passes and the file system *)

Ops == {"find", "find_using_path", "convert", "convert_dir"}

Dir(name) == <<name>>

File(stem, ext) == <<stem, ext>>

\* /opt/blender, the explicit path of a call
ExePath == MkPath(TRUE, <<Dir("opt"), Dir("blender")>>)

\* the process's working directory
Cwd == MkPath(TRUE, <<Dir("cwd")>>)

\* input_dir: relative ("a"), nested ("a/in") and absolute ("/abs")
InputDirs ==
    {MkPath(FALSE, <<Dir("a")>>), MkPath(FALSE, <<Dir("a"), Dir("in")>>),
     MkPath(TRUE, <<Dir("abs")>>)}

\* output_dir: "out"
OutputDirs == {MkPath(FALSE, <<Dir("out")>>)}

\* l.blend, a symbolic link to /real/t.txt
LinkToTxt == MkPath(FALSE, <<File("l", "blend")>>)

\* l.txt, a symbolic link to /real/t.blend
LinkToBlend == MkPath(FALSE, <<File("l", "txt")>>)

\* convert's input: x.blend, a/n.txt, m, .blend, /abs/y.blend and the two links
InputFiles ==
    {MkPath(FALSE, <<File("x", "blend")>>),
     MkPath(FALSE, <<Dir("a"), File("n", "txt")>>),
     MkPath(FALSE, <<Dir("m")>>),
     MkPath(FALSE, <<File("", "blend")>>),
     MkPath(TRUE, <<Dir("abs"), File("y", "blend")>>),
     LinkToTxt, LinkToBlend}

\* convert's output: out/x
OutputFile == MkPath(FALSE, <<Dir("out"), Dir("x")>>)

\* the entries a walked tree may hold, relative to its root (<<>> is the root):
\* x.blend, z.blend, n.txt, .blend, b, b/y.blend
RelPaths ==
    {<<>>, <<File("x", "blend")>>, <<File("z", "blend")>>, <<File("n", "txt")>>,
     <<File("", "blend")>>, <<Dir("b")>>, <<Dir("b"), File("y", "blend")>>}

\* what the walk finds at an entry: a regular file, a directory, something else
\* (a symbolic link, a socket), an entry that cannot be read (the iterator
\* yields Err), an entry whose metadata cannot be read
Kinds == {"file", "dir", "other", "walk_err", "meta_err"}

IsPrefix(s, t) == Len(s) <= Len(t) /\ SubSeq(t, 1, Len(s)) = s

\* WalkDir yields the root first and a directory before its contents, and never
\* returns to a directory it has left (depth first)
NextItems(w) ==
    {it \in [rel : RelPaths, kind : Kinds] :
        /\ \A i \in 1..Len(w) : w[i].rel # it.rel
        /\ IF it.rel = <<>> THEN w = <<>>
           ELSE \E i \in 1..Len(w) :
                   /\ w[i].rel = Front(it.rel)
                   /\ w[i].kind = "dir"
                   /\ \A j \in (i + 1)..Len(w) : IsPrefix(w[i].rel, w[j].rel)}

\* DirEntry::path: the root as given, below it the root joined with the names
EntryPath(root, rel) == Join(root, MkPath(FALSE, rel))

\* the absolute path of p with its links resolved.  The files convert_dir
\* passes on are regular files (the walk does not follow links), so only a file
\* given to convert is a link itself.
Canonical(p) ==
    CASE p = LinkToTxt -> MkPath(TRUE, <<Dir("real"), File("t", "txt")>>)
      [] p = LinkToBlend -> MkPath(TRUE, <<Dir("real"), File("t", "blend")>>)
      [] OTHER -> Join(Cwd, p)

NoCanon == [ok |-> FALSE, v |-> EmptyPath]

\* Path::canonicalize: Err (the path does not resolve), or Canonical(p)
CanonOutcomes(p) == {NoCanon, [ok |-> TRUE, v |-> Canonical(p)]}

----------------------------------------------------------------------------
(* The log of what a call does to the outside world *)

\* kind: the call made; cmd: the command line of a process; path: the path a
\* file system call was given; ok: whether the call succeeded; to: the path
\* canonicalize returned; outcome: what the process did; n: the walked item
\* the call was made for (0 outside a walk)
Event(kind, c, p, ok, n) ==
    [kind |-> kind, cmd |-> c, path |-> p, ok |-> ok, to |-> EmptyPath,
     outcome |-> NotLaunched, n |-> n]

\* test() ran exe's probe
ProbeEvent(exe) ==
    [Event("probe", TestCmd(exe), EmptyPath, probeEnv[exe.tag].launched, 0)
        EXCEPT !.outcome = probeEnv[exe.tag]]

\* create_dir_all(dir) for the n-th walked item
MkdirEvent(dir, ok, n) == Event("mkdir", NoCmd, dir, ok, n)

\* canonicalize(p) gave c
CanonEvent(p, c, n) == [Event("canon", NoCmd, p, c.ok, n) EXCEPT !.to = c.v]

\* convert_internal ran the conversion process c, which did o
SpawnEvent(c, o, n) ==
    [Event("spawn", c, EmptyPath, o.launched, n) EXCEPT !.outcome = o]

NoCur == [input |-> EmptyPath, output |-> EmptyPath, input_file_path |-> EmptyPath,
          n |-> 0]

----------------------------------------------------------------------------
(* The state after the caller has built its arguments *)

Init ==
    /\ op \in Ops
    /\ options \in
          IF op \in {"convert", "convert_dir"}
          THEN [output_format : OutputFormats, blender_path : {NoPath, Some(ExePath)}]
          ELSE {DefaultOptions}
    /\ input \in
          CASE op = "find" -> {EmptyPath}
            [] op = "find_using_path" -> {ExePath}
            [] op = "convert" -> InputFiles
            [] op = "convert_dir" -> InputDirs
    /\ output \in
          CASE op = "convert" -> {OutputFile}
            [] op = "convert_dir" -> OutputDirs
            [] OTHER -> {EmptyPath}
    /\ probeEnv \in [Tags -> ProbeOutcomes]
    /\ pc = CASE op = "find" -> "find"
              [] op = "find_using_path" -> "find_using_path"
              [] OTHER -> "find_using_options"
    /\ candidates = IF op = "find" THEN FindOrder ELSE <<>>
    /\ blender_exe = NoExe
    /\ walked = <<>>
    /\ cur = NoCur
    /\ log = <<>>
    /\ result = Pending

----------------------------------------------------------------------------
(* Discovery *)

\* a call returns r to its caller
Return(r) == result' = r /\ pc' = "done"

\* the path find_using_path is given
PathArgument == IF op = "find_using_path" THEN input ELSE options.blender_path.v

\* a slip: unwrap_or_default() in place of `?` (Normal is the #[default])
Resolved_default(r) ==
    LET exe == IF r.kind = "Ok" THEN r.exe ELSE Normal IN
    CASE op \in {"find", "find_using_path"} ->
           Return(r) /\ UNCHANGED <<blender_exe, cur>>
      [] op = "convert" ->
           /\ blender_exe' = exe
           /\ cur' = [NoCur EXCEPT !.input = input, !.output = output]
           /\ pc' = "convert_internal"
           /\ UNCHANGED result
      [] op = "convert_dir" ->
           /\ blender_exe' = exe
           /\ pc' = "walk"
           /\ UNCHANGED <<cur, result>>

\* discovery hands r back: to the caller of find / find_using_path, or through
\* find_using_options to `let blender_exe = ...?` of convert and convert_dir
Resolved(r) ==
    CASE op \in {"find", "find_using_path"} \/ r.kind = "Err" ->
           Return(r) /\ UNCHANGED <<blender_exe, cur>>
      [] op = "convert" /\ r.kind = "Ok" ->
           /\ blender_exe' = r.exe
           /\ cur' = [NoCur EXCEPT !.input = input, !.output = output]
           /\ pc' = "convert_internal"
           /\ UNCHANGED result
      [] op = "convert_dir" /\ r.kind = "Ok" ->
           /\ blender_exe' = r.exe
           /\ pc' = "walk"
           /\ UNCHANGED <<cur, result>>

\* find_using_options: the override path when there is one, else the search
FindUsingOptions ==
    /\ pc = "find_using_options"
    /\ IF options.blender_path.some
       THEN pc' = "find_using_path" /\ UNCHANGED candidates
       ELSE pc' = "find" /\ candidates' = FindOrder
    /\ UNCHANGED <<op, options, input, output, probeEnv, blender_exe, walked, cur,
                   log, result>>

\* find: one step of Iterator::find over the candidates, and ok_or at its end
Find ==
    /\ pc = "find"
    /\ IF candidates = <<>>
       THEN /\ Resolved(Err(MissingBlenderExecutable))
            /\ UNCHANGED <<candidates, log>>
       ELSE LET x == Head(candidates) IN
            /\ log' = Append(log, ProbeEvent(x))
            /\ IF Matches(test(x))
               THEN Resolved(OkExe(x)) /\ UNCHANGED candidates
               ELSE /\ candidates' = Tail(candidates)
                    /\ UNCHANGED <<pc, result, blender_exe, cur>>
    /\ UNCHANGED <<op, options, input, output, probeEnv, walked>>

\* a slip: the search is tried when the given path does not work
FindUsingPathMiss_fallback ==
    /\ pc' = "find"
    /\ candidates' = FindOrder
    /\ UNCHANGED <<result, blender_exe, cur>>

\* find_using_path, the else branch
FindUsingPathMiss ==
    /\ Resolved(Err(MissingBlenderExecutable))
    /\ UNCHANGED candidates

\* find_using_path
FindUsingPath ==
    /\ pc = "find_using_path"
    /\ LET s == PathExe(PathArgument) IN
       /\ log' = Append(log, ProbeEvent(s))
       /\ IF Matches(test(s))
          THEN Resolved(OkExe(s)) /\ UNCHANGED candidates
          ELSE FindUsingPathMiss
    /\ UNCHANGED <<op, options, input, output, probeEnv, walked>>

----------------------------------------------------------------------------
(* convert_dir *)

\* Path::new(".") as the right-hand side of a join: the joined path has the
\* components of the left-hand side (components() drops an inner ".")
Dot == EmptyPath

\* a slip: the stem joined to the output root alone, the tree flattened
OutputPath_flat(output_dir, input_path) ==
    JoinName(output_dir, FileStem(input_path).v)

\* output_dir.join(base).join(stem), base the entry's parent or "."
OutputPath(output_dir, input_path) ==
    LET base == IF Parent(input_path).some THEN Parent(input_path).v ELSE Dot IN
    JoinName(Join(output_dir, base), FileStem(input_path).v)

\* a slip: everything that is not a directory is converted
IsFile_notdir(kind) == kind # "dir"

\* Metadata::is_file
IsFile(kind) == kind = "file"

\* a slip: rediscovery before the next entry
ContinueWalk_rediscover ==
    /\ pc' = "find_using_options"
    /\ UNCHANGED <<result, blender_exe>>

\* the for loop goes on to its next item
ContinueWalk ==
    /\ pc' = "walk"
    /\ UNCHANGED <<result, blender_exe>>

\* a slip: the file's result is dropped
FileResult_dropped(r) == ContinueWalk

\* `self.convert_internal(..)?` in convert_dir, the tail call in convert
FileResult(r) ==
    IF op = "convert_dir" /\ r.kind = "Ok" THEN ContinueWalk
    ELSE Return(r) /\ UNCHANGED blender_exe

\* the body of the for loop up to the call of convert_internal, for item it
WalkItem(it) ==
    LET n          == Len(walked) + 1
        input_path == EntryPath(input, it.rel)
    IN
    /\ walked' = Append(walked, it)
    /\ IF it.kind \in {"walk_err", "meta_err"} \/ ~IsFile(it.kind)
       THEN ContinueWalk /\ UNCHANGED <<cur, log>>
       ELSE IF ~FileStem(input_path).some
       THEN /\ Return(Err(InvalidInputFile(input_path)))
            /\ UNCHANGED <<blender_exe, cur, log>>
       ELSE LET output_path == OutputPath(output, input_path) IN
            \E created \in BOOLEAN :
               /\ log' = Append(log, MkdirEvent(Parent(output_path).v, created, n))
               /\ IF created
                  THEN /\ cur' = [NoCur EXCEPT !.input = input_path,
                                               !.output = output_path, !.n = n]
                       /\ pc' = "convert_internal"
                       /\ UNCHANGED <<result, blender_exe>>
                  ELSE /\ Return(Err(IOError("create_dir_all")))
                       /\ UNCHANGED <<blender_exe, cur>>

\* the for loop over WalkDir::new(input_dir): its next item, or its end
Walk ==
    /\ pc = "walk"
    /\ \/ /\ Len(walked) < MaxEntries
          /\ \E it \in NextItems(walked) : WalkItem(it)
       \/ /\ Return(Ok)
          /\ UNCHANGED <<walked, blender_exe, cur, log>>
    /\ UNCHANGED <<op, options, input, output, probeEnv, candidates>>

----------------------------------------------------------------------------
(* convert_internal *)

\* a slip: a file without an extension passes
ExtensionOk_lenient(p) == ~Extension(p).some \/ Extension(p).v = "blend"

\* extension() is Some and is "blend"
ExtensionOk(p) == Extension(p).some /\ Extension(p).v = "blend"

\* canonicalize and the check of the extension
Validate ==
    /\ pc = "convert_internal"
    /\ \E c \in CanonOutcomes(cur.input) :
          /\ log' = Append(log, CanonEvent(cur.input, c, cur.n))
          /\ IF ~c.ok
             THEN Return(Err(IOError("canonicalize"))) /\ UNCHANGED cur
             ELSE IF ~ExtensionOk(c.v)
             THEN Return(Err(InvalidInputFile(c.v))) /\ UNCHANGED cur
             ELSE /\ cur' = [cur EXCEPT !.input_file_path = c.v]
                  /\ pc' = "status"
                  /\ UNCHANGED result
    /\ UNCHANGED <<op, options, input, output, probeEnv, candidates, blender_exe,
                   walked>>

\* the conversion process and what its status becomes
Run ==
    /\ pc = "status"
    /\ \E o \in RunOutcomes :
          LET c == ConvertCmd(blender_exe, options.output_format,
                              cur.input_file_path, cur.output)
          IN
          /\ log' = Append(log, SpawnEvent(c, o, cur.n))
          /\ IF ~o.launched THEN FileResult(Err(IOError("status")))
             ELSE IF Success(o.status) THEN FileResult(Ok)
             ELSE FileResult(Err(Export(o.status)))
    /\ UNCHANGED <<op, options, input, output, probeEnv, candidates, walked, cur>>

----------------------------------------------------------------------------

Next == FindUsingOptions \/ Find \/ FindUsingPath \/ Walk \/ Validate \/ Run

Spec == Init /\ [][Next]_vars

----------------------------------------------------------------------------
(* Vocabulary of the properties *)

Done == pc = "done"

InDiscovery == pc \in {"find_using_options", "find", "find_using_path"}

Events(kind) == {i \in 1..Len(log) : log[i].kind = kind}

\* the candidate's probe starts and exits with success in this environment
ProbeWorks(tag) == probeEnv[tag].launched /\ probeEnv[tag].status = Exited(0)

HasOverride == options.blender_path.some

\* the program and leading arguments of each locator, as lib.rs spells them
IsLauncher(c) ==
    /\ c.program = [name |-> "flatpak", path |-> NoPath]
    /\ Len(c.args) >= 2
    /\ c.args[1].s = "run"
    /\ c.args[2].s = "org.blender.Blender"

IsExplicit(c, p) == c.program = [name |-> "", path |-> Some(p)]

\* the directive of a conversion command: its last argument
Directive(c) == c.args[Len(c.args)].script

----------------------------------------------------------------------------
(* C1: find() returns the first candidate, in the order bare name then      *)
(* launcher, whose probe started and exited with success: the bare name     *)
(* whenever its probe works, the launcher when only its probe works, and    *)
(* MissingBlenderExecutable exactly when neither works; never an IOError.   *)
FindReturnsFirstWorking ==
    (op = "find" /\ Done) =>
        /\ ProbeWorks("Normal") => result = OkExe(Normal)
        /\ (~ProbeWorks("Normal") /\ ProbeWorks("Flatpak")) => result = OkExe(Flatpak)
        /\ (~ProbeWorks("Normal") /\ ~ProbeWorks("Flatpak"))
              <=> result = Err(MissingBlenderExecutable)
        /\ result.err.tag # "IOError"

\* the bare name cannot be launched, the launcher works: find() gave Flatpak
FindFellBackToLauncher ==
    /\ op = "find" /\ Done
    /\ ~probeEnv["Normal"].launched
    /\ ProbeWorks("Flatpak")
    /\ result = OkExe(Flatpak)
    /\ Len(log) = 2

----------------------------------------------------------------------------
(* C2: with an explicit path (find_using_path(p), or convert / convert_dir  *)
(* whose options carry an override path) only p is probed, once; when that  *)
(* probe does not succeed the call fails with MissingBlenderExecutable,     *)
(* whatever the bare name and the launcher would have done.                 *)
ExplicitPathHasNoFallback ==
    (op = "find_using_path" \/ HasOverride) =>
        /\ \A i \in Events("probe") : IsExplicit(log[i].cmd, ExePath)
        /\ Cardinality(Events("probe")) <= 1
        /\ (Done /\ ~ProbeWorks("Path")) =>
              /\ result = Err(MissingBlenderExecutable)
              /\ Len(log) = 1
        /\ (Done /\ op = "find_using_path" /\ ProbeWorks("Path")) =>
              result = OkExe(PathExe(ExePath))

\* find_using_path(p) failed although the bare name and the launcher work
ExplicitPathFailedDespiteOthers ==
    /\ op = "find_using_path" /\ Done
    /\ ~ProbeWorks("Path")
    /\ ProbeWorks("Normal") /\ ProbeWorks("Flatpak")
    /\ result = Err(MissingBlenderExecutable)

----------------------------------------------------------------------------
(* C3: in one convert_dir call discovery runs once, before any file is      *)
(* touched: one probe with an override path, one or two without, whatever   *)
(* the number of files; no probe follows a mkdir, canonicalize or spawn;    *)
(* every conversion process is started through the one locator whose probe  *)
(* succeeded.                                                               *)
DiscoveryRunsOnce ==
    (op = "convert_dir" /\ ~InDiscovery) =>
        /\ Cardinality(Events("probe")) = (IF HasOverride THEN 1
                                           ELSE IF ProbeWorks("Normal") THEN 1 ELSE 2)
        /\ \A i \in Events("probe") : \A j \in 1..Len(log) :
              log[j].kind # "probe" => i < j
        /\ \A i \in Events("spawn") :
              /\ blender_exe # NoExe
              /\ ProbeWorks(blender_exe.tag)
              /\ log[i].cmd.program = cmd(blender_exe).program
              /\ \E j \in Events("probe") :
                    /\ log[j].cmd.program = log[i].cmd.program
                    /\ log[j].outcome = Launched(Exited(0))
                    /\ \A k \in Events("probe") : k <= j

\* two files converted after two probes
TwoFilesOneDiscovery ==
    /\ op = "convert_dir"
    /\ Cardinality(Events("spawn")) = 2
    /\ Cardinality(Events("probe")) = 2
    /\ \A i \in Events("spawn") : IsLauncher(log[i].cmd)

----------------------------------------------------------------------------
(* C4 *)

\* the error the failure logged in e stands for; NoErr when e is no failure
ErrorOf(e) ==
    CASE e.kind = "mkdir" /\ ~e.ok -> IOError("create_dir_all")
      [] e.kind = "canon" /\ ~e.ok -> IOError("canonicalize")
      [] e.kind = "canon" /\ e.ok /\ (Len(Last(e.to.comps)) < 2 \/
                                      Last(Last(e.to.comps)) # "blend"
                                      \/ Last(e.to.comps) = <<"", "blend">>) ->
            InvalidInputFile(e.to)
      [] e.kind = "spawn" /\ ~e.outcome.launched -> IOError("status")
      [] e.kind = "spawn" /\ e.outcome.launched /\ e.outcome.status # Exited(0) ->
            Export(e.outcome.status)
      [] OTHER -> NoErr

(* C4: convert_dir is fail-fast.  A call on a file that fails (mkdir,       *)
(* canonicalize, the extension check, the conversion process) is the last   *)
(* thing the walk does: convert_dir has returned exactly that error and no  *)
(* later item was enumerated; a walk that returned success converted every  *)
(* regular file it enumerated.                                              *)
ConvertDirFailsFast ==
    op = "convert_dir" =>
        /\ \A i \in 1..Len(log) :
              (log[i].kind # "probe" /\ ErrorOf(log[i]) # NoErr) =>
                 /\ i = Len(log)
                 /\ Done
                 /\ result = Err(ErrorOf(log[i]))
                 /\ log[i].n = Len(walked)
        /\ (Done /\ result = Ok) =>
              \A n \in 1..Len(walked) :
                 walked[n].kind = "file" =>
                    \E i \in Events("spawn") :
                       /\ log[i].n = n
                       /\ log[i].outcome = Launched(Exited(0))

\* the first file was converted, the second one's process exited with 1
SecondFileFailed ==
    /\ op = "convert_dir" /\ Done
    /\ Len(walked) = 3
    /\ walked[2].kind = "file" /\ walked[3].kind = "file"
    /\ \E i \in Events("spawn") : log[i].n = 2 /\ log[i].outcome = Launched(Exited(0))
    /\ result = Err(Export(Exited(1)))

----------------------------------------------------------------------------
(* C5 *)

\* the names of a path, the extension of the last one stripped
Stripped(names) ==
    IF names = <<>> THEN <<>>
    ELSE LET name == Last(names) IN
         Front(names) \o <<IF Len(name) = 1 \/ name = <<"", name[2]>> THEN name
                           ELSE Front(name)>>

----------------------------------------------------------------------------
(* C6: once the input has passed validation the conversion process alone    *)
(* decides: exit code 0 is success, a process that ran and did not exit     *)
(* with 0 is Export with that very status (never IOError), a process that   *)
(* could not be launched is IOError (never Export).                         *)
StatusDecidesOutcome ==
    \A i \in Events("spawn") :
        LET o == log[i].outcome IN
        /\ (o.launched /\ o.status = Exited(0)) =>
              /\ result.kind # "Err" \/ i < Len(log)
              /\ op = "convert" => (Done /\ result = Ok)
        /\ (o.launched /\ o.status # Exited(0)) =>
              /\ Done /\ i = Len(log)
              /\ result.kind = "Err"
              /\ result.err.tag = "Export"
              /\ result.err.status = o.status
        /\ ~o.launched =>
              /\ Done /\ i = Len(log)
              /\ result.kind = "Err"
              /\ result.err.tag = "IOError"

\* convert's process exited with status 1: Export(1)
ExitOneIsExport ==
    /\ op = "convert" /\ Done
    /\ log[Len(log)].kind = "spawn"
    /\ log[Len(log)].outcome = Launched(Exited(1))
    /\ result = Err(Export(Exited(1)))

----------------------------------------------------------------------------
(* C7 *)

\* the last name of p ends in ".blend" (and is not just ".blend")
EndsInBlend(p) ==
    /\ p.comps # <<>>
    /\ LET name == Last(p.comps) IN
       /\ Len(name) >= 2
       /\ Last(name) = "blend"
       /\ name # <<"", "blend">>

\* C7 as the spec states it: convert of a file whose extension is not "blend"
\* fails with InvalidInputFile (IOError when the path cannot be canonicalized),
\* for every output format.
WrongExtensionIsInvalidInput ==
    (op = "convert" /\ Done /\ ~EndsInBlend(Canonical(input))) =>
        \/ result = Err(InvalidInputFile(Canonical(input)))
        \/ result = Err(IOError("canonicalize"))

\* C7, amended: once discovery has resolved a locator (and, in convert_dir, the
\* output directory of the file has been created), a file that cannot be
\* canonicalized fails with IOError, and a file whose canonicalized path has
\* no extension or one other than "blend" fails with InvalidInputFile carrying
\* the canonicalized path, for every output format; before that, a failed
\* discovery is MissingBlenderExecutable and a failed create_dir_all is
\* IOError, whatever the extension.  InvalidInputFile is returned for nothing
\* else.
WrongExtensionIsInvalidInputOnceResolved ==
    /\ \A i \in Events("canon") :
          /\ log[i].ok => log[i].to = Canonical(log[i].path)
          /\ ~log[i].ok =>
                Done /\ i = Len(log) /\ result = Err(IOError("canonicalize"))
          /\ (log[i].ok /\ ~EndsInBlend(log[i].to)) =>
                Done /\ i = Len(log) /\ result = Err(InvalidInputFile(log[i].to))
          /\ (log[i].ok /\ EndsInBlend(log[i].to) /\ i = Len(log)) =>
                pc = "status" /\ result = Pending
    /\ (op = "convert" /\ Done /\ ~EndsInBlend(Canonical(input))) =>
          \/ result = Err(InvalidInputFile(Canonical(input)))
          \/ result = Err(IOError("canonicalize"))
          \/ result = Err(MissingBlenderExecutable) /\ Events("canon") = {}
    /\ (Done /\ result.kind = "Err" /\ result.err.tag = "InvalidInputFile") =>
          /\ log # <<>>
          /\ log[Len(log)].kind = "canon"
          /\ log[Len(log)].ok

\* l.blend, a link to /real/t.txt, was refused as /real/t.txt with the format
\* GltfSeparate
LinkToTxtRefused ==
    /\ op = "convert" /\ Done
    /\ options.output_format = "GltfSeparate"
    /\ input = LinkToTxt
    /\ result = Err(InvalidInputFile(MkPath(TRUE, <<Dir("real"), File("t", "txt")>>)))

----------------------------------------------------------------------------
(* C8: the directive of a conversion carries the token of the chosen        *)
(* OutputFormat as its export_format: GLB for Glb, GLTF_EMBEDDED for        *)
(* GltfEmbedded, GLTF_SEPARATE for GltfSeparate; no two formats share a     *)
(* token, and the format of new() / default() is Glb.                       *)
DirectiveCarriesFormatToken ==
    /\ \A i \in Events("spawn") :
          LET d == Directive(log[i].cmd) IN
          /\ options.output_format = "Glb" => d.export_format = "GLB"
          /\ options.output_format = "GltfEmbedded" => d.export_format = "GLTF_EMBEDDED"
          /\ options.output_format = "GltfSeparate" => d.export_format = "GLTF_SEPARATE"
          /\ d.check_existing = "False"
    /\ \A f, g \in OutputFormats : FormatToken(f) = FormatToken(g) => f = g
    /\ op \in {"find", "find_using_path"} => options.output_format = "Glb"
    /\ DefaultOptions.output_format = "Glb"

\* a conversion with the format GltfSeparate was started
SeparateConverted ==
    /\ options.output_format = "GltfSeparate"
    /\ Events("spawn") # {}
    /\ Directive(log[Len(log)].cmd).export_format = "GLTF_SEPARATE"

----------------------------------------------------------------------------
(* C9: in convert_dir an item that is not a regular file (an item the       *)
(* iterator could not read, one whose metadata cannot be read, a directory, *)
(* anything else) is skipped: nothing is done for it, it is never the       *)
(* reason of an error, and the walk goes on; only regular files reach the   *)
(* per-file step.                                                           *)
NonFilesAreSkipped ==
    op = "convert_dir" =>
        /\ \A i \in 1..Len(log) :
              log[i].n # 0 => walked[log[i].n].kind = "file"
        /\ walked # <<>> /\ walked[Len(walked)].kind # "file" =>
              \/ pc = "walk" /\ result = Pending
              \/ Done /\ result = Ok
        /\ (Done /\ result.kind = "Err" /\ walked # <<>>) =>
              walked[Len(walked)].kind = "file"

\* after the root directory and an item without metadata, the walk converted a file
SkippedThenConverted ==
    /\ op = "convert_dir" /\ Done /\ result = Ok
    /\ Len(walked) = 3
    /\ walked[2].kind = "meta_err"
    /\ walked[3].kind = "file"
    /\ \E i \in Events("spawn") : log[i].n = 3

----------------------------------------------------------------------------
(* C10: a conversion process is started only through a locator whose probe  *)
(* succeeded earlier in the same call, and only for an input that was       *)
(* canonicalized to a path ending in ".blend"; when discovery fails, convert *)
(* and convert_dir return MissingBlenderExecutable having done nothing but  *)
(* probe: no canonicalize, no directory, no item walked, no process.        *)
ConversionOnlyAfterDiscovery ==
    /\ \A i \in Events("spawn") :
          /\ \E j \in Events("probe") :
                /\ j < i
                /\ log[j].outcome = Launched(Exited(0))
                /\ log[j].cmd.program = log[i].cmd.program
          /\ \E j \in Events("canon") :
                /\ j < i
                /\ log[j].n = log[i].n
                /\ log[j].ok
                /\ EndsInBlend(log[j].to)
                /\ log[i].cmd.args[Len(log[i].cmd.args) - 2].path = Some(log[j].to)
    /\ (op \in {"convert", "convert_dir"} /\ ~InDiscovery
          /\ ~\E j \in Events("probe") : log[j].outcome = Launched(Exited(0))) =>
          /\ Done
          /\ result = Err(MissingBlenderExecutable)
          /\ \A i \in 1..Len(log) : log[i].kind = "probe"
          /\ walked = <<>>

\* convert of a/n.txt without any working blender: MissingBlenderExecutable
InvalidInputNoBlender ==
    /\ op = "convert" /\ Done
    /\ input = MkPath(FALSE, <<Dir("a"), File("n", "txt")>>)
    /\ ~HasOverride
    /\ Len(log) = 2
    /\ result = Err(MissingBlenderExecutable)

====
